---- MODULE Spec2Model ----
(***************************************************************************)
(* Model of core/Path.js (2d-differential-growth-experiments) as used by   *)
(* experiment "07 - bounds": one Path, its ordered node array, and the     *)
(* operations that edit it (splitEdges, pruneNodes, iterate, ...).         *)
(*                                                                         *)
(* Positions are fixed-point numbers: an integer counts 1/Unit of a pixel, *)
(* with Unit = 2^FracBits, so that repeated midpoints of integer pixel     *)
(* positions stay exact.  Distances are compared by their squares.  A       *)
(* midpoint that falls between two such values is rounded as a double is   *)
(* where neighbouring doubles are 1/Unit px apart (SpecSplitLoop).         *)
(***************************************************************************)
EXTENDS Integers, Sequences, FiniteSets, TLC

\* ---- program constants (Settings.js) ----
MinDistance == 10
MaxDistance == 20
RepulsionRadius == 30
AttractionForcePct == 20
RepulsionForcePct == 60
AlignmentForcePct == 55
NodeInjectionInterval == 100

\* ---- bounds of the model ----
FracBits == 3
MaxInitNodes == 3

Unit == 2^FracBits

VARIABLES
    nodes,               \* this.nodes: sequence of node records
    isClosed,            \* this.isClosed
    bounds,              \* this.bounds: 0 (none) or the number of a Bounds polygon
    useBrownianMotion,   \* this.useBrownianMotion
    lastNodeInjectTime,  \* this.lastNodeInjectTime
    millis,              \* p5.millis(): the clock of the sketch
    tree,                \* the World's index handed to iterate(): identities of the indexed nodes
    neighbors,           \* applyRepulsion's query result, in the order returned
    pc,                  \* position inside Path.iterate ("idle": not running)
    idx,                 \* iterate's loop index (1-based)
    ticks,               \* completed calls of iterate
    nodeHistory,         \* this.nodeHistory
    maxHistorySize,      \* this.settings.MaxHistorySize
    colors,              \* the four colour objects the Path was configured with
    currentFillColor,    \* which colour object this.currentFillColor refers to
    currentStrokeColor,  \* which colour object this.currentStrokeColor refers to
    invertedColors,      \* this.invertedColors
    traceMode,           \* this.traceMode
    configuredColors,    \* the colour values the constructor was given (ghost)
    toggleLog,           \* active colours before each of the latest toggles in a row (ghost)
    nextId,              \* identity of the next Node object created (ghost)
    lastOp,              \* name of the operation or step that returned last (ghost)
    pre,                 \* this.nodes as it was when that operation was called (ghost)
    stepLog,             \* steps of the running iterate call, in order (ghost)
    fixedByBounds,       \* identities of the nodes applyBounds has fixed (ghost)
    captured,            \* number of addToHistory calls so far (ghost)
    index,               \* the index a method was called with or is working at (1-based)
    connectedNodes,      \* what getConnectedNodes returned last
    maxDistance,         \* this.settings.MaxDistance as set by setMaxDistance, in 1/Unit px
    paused,              \* world.paused
    timers,              \* the setTimeout callbacks that have not run yet
    clock,               \* the time of the sketch's event loop, in ms
    currentLineType,     \* the sketch's currentLineType
    restarts,            \* the times of the calls of restartWorld so far (ghost)
    pauseSetBy,          \* who set the present pause, and when (ghost)
    fired                \* the timer whose callback ran last (ghost)

pathVars == <<nodes, isClosed, bounds, useBrownianMotion, lastNodeInjectTime>>
simVars == <<millis, tree, neighbors, pc, idx, ticks>>
histVars == <<nodeHistory, maxHistorySize, captured>>
colorVars ==
    <<colors, currentFillColor, currentStrokeColor, invertedColors, traceMode,
      configuredColors, toggleLog>>
ghostVars == <<nextId, lastOp, pre, stepLog, fixedByBounds>>
methodVars == <<index, connectedNodes, maxDistance>>
sketchVars == <<paused, timers, clock, currentLineType, restarts, pauseSetBy, fired>>
vars == <<pathVars, simVars, histVars, colorVars, ghostVars, methodVars, sketchVars>>

\* ---- Node ----
\* new Node(p5, x, y, settings, fixed): the target starts at the position
NewNode(id, x, y, fixed) ==
    [id |-> id, x |-> x, y |-> y, nx |-> x, ny |-> y, isFixed |-> fixed]

\* a Node at a position given in whole pixels
PxNode(id, p, fixed) == NewNode(id, p[1] * Unit, p[2] * Unit, fixed)

\* Node.distance(other), squared
Dist2(a, b) == (a.x - b.x) * (a.x - b.x) + (a.y - b.y) * (a.y - b.y)

\* a length in pixels, squared, in model units
Sq(px) == (px * Unit) * (px * Unit)

\* ---- Path.getConnectedNodes ----
\* (variant: the test is index > 1, so the second node has no previous node)
PreviousIndexAfterSecond(ns, closed, i) ==
    IF i = 1 /\ closed THEN Len(ns)
    ELSE IF i > 2 /\ i - 1 <= Len(ns) THEN i - 1
    ELSE 0

\* index of the previous node (0: undefined); i is 1-based
PreviousIndex(ns, closed, i) ==
    IF i = 1 /\ closed THEN Len(ns)
    ELSE IF i >= 2 /\ i - 1 <= Len(ns) THEN i - 1
    ELSE 0

\* index of the next node (0: undefined)
NextIndex(ns, closed, i) ==
    IF i = Len(ns) /\ closed THEN 1
    ELSE IF i <= Len(ns) /\ i + 1 <= Len(ns) THEN i + 1
    ELSE 0

\* ---- Path.getMidpointNode ----
\* (variant: the sum of the two positions, not halved)
getMidpointNodeSum(id, node1, node2) ==
    NewNode(id, node1.x + node2.x, node1.y + node2.y, FALSE)

\* (s / 2) for a sum s of two coordinates: exact when s is even; when it is
\* odd the half is not a coordinate value, and the sum rounds to the even one
\* of the two values next to it (IEEE 754 round to nearest, ties to even)
Halved(s) ==
    IF s % 2 = 0 THEN s \div 2
    ELSE LET below == (s - 1) \div 2 IN
         IF below % 2 = 0 THEN below ELSE below + 1

getMidpointNode(id, node1, node2) ==
    NewNode(id, Halved(node1.x + node2.x), Halved(node1.y + node2.y), FALSE)

\* Array.prototype.splice(at, 0, item) and splice(at, 1), 1-based
InsertAt(s, i, e) == SubSeq(s, 1, i - 1) \o <<e>> \o SubSeq(s, i, Len(s))
RemoveAt(s, i) == SubSeq(s, 1, i - 1) \o SubSeq(s, i + 1, Len(s))

\* ---- Path.splitEdges ----
\* the for..of loop over the live array, from position i on; nid is the
\* identity given to the next midpoint
RECURSIVE SplitFrom(_, _, _, _)
SplitFrom(ns, closed, i, nid) ==
    IF i > Len(ns) THEN ns
    ELSE LET p == PreviousIndex(ns, closed, i) IN
         IF p # 0 /\ Dist2(ns[i], ns[p]) >= Sq(MaxDistance)
         THEN LET mid == getMidpointNode(nid, ns[i], ns[p]) IN
              IF i = 1
              THEN SplitFrom(Append(ns, mid), closed, i + 1, nid + 1)
              ELSE SplitFrom(InsertAt(ns, i, mid), closed, i + 1, nid + 1)
         ELSE SplitFrom(ns, closed, i + 1, nid)

\* (variant: the closing edge of a closed path is not looked at)
splitEdgesNoWrap(ns, closed, nid) == SplitFrom(ns, FALSE, 1, nid)

splitEdges(ns, closed, nid) == SplitFrom(ns, closed, 1, nid)

\* ---- Path.pruneNodes ----
RECURSIVE PruneFrom(_, _, _)
PruneFrom(ns, closed, i) ==
    IF i > Len(ns) THEN ns
    ELSE LET p == PreviousIndex(ns, closed, i) IN
         IF p # 0 /\ Dist2(ns[i], ns[p]) < Sq(MinDistance)
         THEN IF i = 1
              THEN IF ~ns[Len(ns)].isFixed
                   THEN PruneFrom(RemoveAt(ns, Len(ns)), closed, i + 1)
                   ELSE PruneFrom(ns, closed, i + 1)
              ELSE IF ~ns[i - 1].isFixed
                   THEN PruneFrom(RemoveAt(ns, i - 1), closed, i + 1)
                   ELSE PruneFrom(ns, closed, i + 1)
         ELSE PruneFrom(ns, closed, i + 1)

\* (variant: the previous node is removed whether it is fixed or not)
RECURSIVE PruneAnyFrom(_, _, _)
PruneAnyFrom(ns, closed, i) ==
    IF i > Len(ns) THEN ns
    ELSE LET p == PreviousIndex(ns, closed, i) IN
         IF p # 0 /\ Dist2(ns[i], ns[p]) < Sq(MinDistance)
         THEN IF i = 1
              THEN PruneAnyFrom(RemoveAt(ns, Len(ns)), closed, i + 1)
              ELSE PruneAnyFrom(RemoveAt(ns, i - 1), closed, i + 1)
         ELSE PruneAnyFrom(ns, closed, i + 1)

pruneNodesAny(ns, closed) == PruneAnyFrom(ns, closed, 1)

pruneNodes(ns, closed) == PruneFrom(ns, closed, 1)

\* ---- helpers for stating properties ----
Ids(ns) == {ns[k].id : k \in 1..Len(ns)}
Pos(n) == <<n.x, n.y>>
Positions(ns) == [k \in 1..Len(ns) |-> Pos(ns[k])]

\* the edges of a path: pairs <<i, j>> of adjacent indices
Edges(ns, closed) ==
    {<<k, k + 1>> : k \in 1..(Len(ns) - 1)}
        \cup (IF closed /\ Len(ns) >= 1 THEN {<<Len(ns), 1>>} ELSE {})

\* ---- initial paths ----
SeqsUpTo(S, n) == UNION {[1..k -> S] : k \in 1..n}

SplitPoints == {<<0, 0>>, <<0, 20>>, <<0, 30>>, <<0, 50>>, <<30, 0>>, <<12, 16>>}

\* ---- the parts of the state a specification leaves alone ----
\* a Path outside World.iterate, with no Bounds and no Brownian motion
InitNoSim ==
    /\ bounds = 0
    /\ useBrownianMotion = FALSE
    /\ lastNodeInjectTime = 0
    /\ millis = 0
    /\ tree = {}
    /\ neighbors = <<>>
    /\ pc = "idle"
    /\ idx = 0
    /\ ticks = 0
    /\ stepLog = <<>>
    /\ fixedByBounds = {}

\* constructor: this.nodeHistory = []
InitNoHistory ==
    /\ nodeHistory = <<>>
    /\ maxHistorySize = 1
    /\ captured = 0

\* constructor with the default colour arguments and Settings.InvertedColors
DefaultColors ==
    [fillColor |-> [h |-> 0, s |-> 0, b |-> 0, a |-> 255],
     strokeColor |-> [h |-> 0, s |-> 0, b |-> 0, a |-> 255],
     invertedFillColor |-> [h |-> 0, s |-> 0, b |-> 255, a |-> 255],
     invertedStrokeColor |-> [h |-> 0, s |-> 0, b |-> 255, a |-> 255]]

InitDefaultColors ==
    /\ colors = DefaultColors
    /\ invertedColors = TRUE
    /\ traceMode = FALSE
    /\ currentFillColor = "invertedFillColor"
    /\ currentStrokeColor = "invertedStrokeColor"
    /\ configuredColors = DefaultColors
    /\ toggleLog = <<>>

\* no method of the Path has been called with an index yet; Settings.MaxDistance
InitNoMethod ==
    /\ index = 0
    /\ connectedNodes = [previousNode |-> <<>>, nextNode |-> <<>>]
    /\ maxDistance = MaxDistance * Unit

\* a Path outside the sketch: no World to pause, no timer, no key
InitNoSketch ==
    /\ paused = FALSE
    /\ timers = {}
    /\ clock = 0
    /\ currentLineType = "OPPOSING_ARCS"
    /\ restarts = <<>>
    /\ pauseSetBy = [who |-> "nobody", at |-> 0]
    /\ fired = [n |-> 0, at |-> 0]

\* =========================================================================
\* SpecSplit: splitEdges() called on paths built by the constructor
\* =========================================================================
InitSplit ==
    /\ \E ps \in SeqsUpTo(SplitPoints, MaxInitNodes) :
          nodes = [k \in 1..Len(ps) |-> PxNode(k, ps[k], FALSE)]
    /\ isClosed \in BOOLEAN
    /\ nextId = Len(nodes) + 1
    /\ lastOp = "new"
    /\ pre = nodes
    /\ InitNoSim /\ InitNoHistory /\ InitDefaultColors
    /\ InitNoMethod /\ InitNoSketch

SplitEdgesCall ==
    /\ nodes' = splitEdges(nodes, isClosed, nextId)
    /\ nextId' = nextId + (Len(nodes') - Len(nodes))
    /\ lastOp' = "splitEdges"
    /\ pre' = nodes
    /\ UNCHANGED <<isClosed, bounds, useBrownianMotion, lastNodeInjectTime>>
    /\ UNCHANGED <<simVars, histVars, colorVars, stepLog, fixedByBounds>>
    /\ UNCHANGED <<methodVars, sketchVars>>

NextSplit == SplitEdgesCall

SpecSplit == InitSplit /\ [][NextSplit]_vars


\* C1 as stated: after splitEdges() returns, every pair of adjacent nodes
\* (last-first included on a closed Path) is at most MaxDistance apart,
\* whatever the edge lengths were before the call.
C1_AllEdgesWithinMax ==
    lastOp = "splitEdges" =>
        \A e \in Edges(nodes, isClosed) :
            Dist2(nodes[e[1]], nodes[e[2]]) <= Sq(MaxDistance)

\* every edge of the path is shorter than twice MaxDistance
ShorterThanTwiceMax(ns, closed) ==
    \A e \in Edges(ns, closed) : Dist2(ns[e[1]], ns[e[2]]) < Sq(2 * MaxDistance)

\* C1 amended: after splitEdges() returns on a Path whose edges were all
\* shorter than 2 * MaxDistance when it was called, every pair of adjacent
\* nodes (last-first included on a closed Path) is at most MaxDistance apart.
C1_EdgesWithinMaxIfShort ==
    (lastOp = "splitEdges" /\ ShorterThanTwiceMax(pre, isClosed)) =>
        \A e \in Edges(nodes, isClosed) :
            Dist2(nodes[e[1]], nodes[e[2]]) <= Sq(MaxDistance)

\* a closed path with edges in [MaxDistance, 2 * MaxDistance) has been split
C1_Witness ==
    /\ lastOp = "splitEdges"
    /\ isClosed
    /\ ShorterThanTwiceMax(pre, isClosed)
    /\ Len(pre) = 3
    /\ Len(nodes) > Len(pre)

\* the pixel positions of the example of C6
ExampleBefore == <<<<0, 0>>, <<0, 30 * Unit>>>>
ExampleAfter == <<<<0, 0>>, <<0, 15 * Unit>>, <<0, 30 * Unit>>>>

\* C6: one call of splitEdges() on the open 2-node Path (0,0), (0,30) with
\* MaxDistance 20 yields exactly (0,0), (0,15), (0,30): the two original
\* nodes are unchanged and one new, non-fixed node lies between them.
C6_SplitExample ==
    (lastOp = "splitEdges" /\ ~isClosed /\ Positions(pre) = ExampleBefore) =>
        /\ Positions(nodes) = ExampleAfter
        /\ nodes[1] = pre[1]
        /\ nodes[3] = pre[2]
        /\ nodes[2].id \notin Ids(pre)
        /\ ~nodes[2].isFixed

C6_Witness ==
    lastOp = "splitEdges" /\ ~isClosed /\ Positions(pre) = ExampleBefore

\* =========================================================================
\* SpecPrune: pruneNodes() called on paths with fixed and free nodes
\* =========================================================================
PrunePoints == {<<0, 0>>, <<0, 4>>, <<0, 8>>, <<6, 0>>, <<12, 0>>, <<0, 30>>}

InitPrune ==
    /\ \E ps \in SeqsUpTo(PrunePoints, MaxInitNodes) :
          \E fx \in [1..Len(ps) -> BOOLEAN] :
              nodes = [k \in 1..Len(ps) |-> PxNode(k, ps[k], fx[k])]
    /\ isClosed \in BOOLEAN
    /\ nextId = Len(nodes) + 1
    /\ lastOp = "new"
    /\ pre = nodes
    /\ InitNoSim /\ InitNoHistory /\ InitDefaultColors
    /\ InitNoMethod /\ InitNoSketch

PruneNodesCall ==
    /\ nodes' = pruneNodes(nodes, isClosed)
    /\ lastOp' = "pruneNodes"
    /\ pre' = nodes
    /\ UNCHANGED <<isClosed, bounds, useBrownianMotion, lastNodeInjectTime>>
    /\ UNCHANGED <<simVars, histVars, colorVars, nextId, stepLog, fixedByBounds>>
    /\ UNCHANGED <<methodVars, sketchVars>>

NextPrune == PruneNodesCall

SpecPrune == InitPrune /\ [][NextPrune]_vars

\* C2 as stated: after pruneNodes() returns, no two adjacent nodes that are
\* both non-fixed are closer to each other than MinDistance.
C2_NoCloseFreeNeighbours ==
    lastOp = "pruneNodes" =>
        \A e \in Edges(nodes, isClosed) :
            (e[1] # e[2] /\ ~nodes[e[1]].isFixed /\ ~nodes[e[2]].isFixed) =>
                Dist2(nodes[e[1]], nodes[e[2]]) >= Sq(MinDistance)

\* C10: pruneNodes() keeps every fixed node, keeps the remaining nodes
\* unchanged and in order, and removes only nodes that were closer than
\* MinDistance to their successor in the path.
C10_PruneKeepsFixed ==
    lastOp = "pruneNodes" =>
        /\ \A k \in 1..Len(pre) : pre[k].isFixed => pre[k].id \in Ids(nodes)
        /\ nodes = SelectSeq(pre, LAMBDA n : n.id \in Ids(nodes))
        /\ \A k \in 1..Len(pre) :
              pre[k].id \notin Ids(nodes) =>
                  LET j == NextIndex(pre, isClosed, k) IN
                  /\ j # 0
                  /\ Dist2(pre[k], pre[j]) < Sq(MinDistance)

\* a fixed node closer than MinDistance to its successor survived a call
\* that removed some other node
C10_Witness ==
    /\ lastOp = "pruneNodes"
    /\ Len(nodes) < Len(pre)
    /\ \E k \in 1..Len(pre) :
          /\ pre[k].isFixed
          /\ NextIndex(pre, isClosed, k) # 0
          /\ Dist2(pre[k], pre[NextIndex(pre, isClosed, k)]) < Sq(MinDistance)

\* =========================================================================
\* Spec: World.iterate drives Path.iterate, one step of its body at a time
\* =========================================================================
\* ---- bounds of the model ----
\* frames simulated, and the longest path a frame is started on
MaxTicks == 2
MaxNodes == 3

\* Node.iterate's step fraction (settings.MaxVelocity), in percent
MaxVelocityPct == 50

\* p5.lerp(start, stop, amt) with amt = pct / 100
Lerp(start, stop, pct) == start + ((stop - start) * pct) \div 100

\* the offsets p5.random(-range/2, range/2) is sampled at, as <<dx, dy>>
JitterOffsets == {<<-1, 0>>, <<1, 1>>}

\* time between two frames, in ms
FrameMillis == {50, 100}

\* ---- Bounds ----
\* the polygons a Path is given as Bounds: axis-parallel boxes, in pixels
BoundsPolygons ==
    <<[x0 |-> -10, y0 |-> -10, x1 |-> 20, y1 |-> 25],
      [x0 |-> -10, y0 |-> -10, x1 |-> 40, y1 |-> 60]>>

\* Bounds.contains([x, y])
Contains(b, x, y) ==
    LET poly == BoundsPolygons[b] IN
    /\ poly.x0 * Unit <= x /\ x <= poly.x1 * Unit
    /\ poly.y0 * Unit <= y /\ y <= poly.y1 * Unit

\* ---- Path.applyBrownianMotion ----
applyBrownianMotion(ns, i, d) ==
    [ns EXCEPT ![i].x = @ + d[1], ![i].y = @ + d[2]]

\* ---- Path.applyAttraction ----
\* one of the two blocks: pull nextPosition towards neighbour j (0: undefined).
\* Every node's minDistance is settings.MinDistance, so leastMinDistance is too.
AttractTo(ns, i, j) ==
    IF j # 0 /\ ~ns[i].isFixed /\ Dist2(ns[i], ns[j]) > Sq(MinDistance)
    THEN [ns EXCEPT ![i].nx = Lerp(@, ns[j].x, AttractionForcePct),
                    ![i].ny = Lerp(@, ns[j].y, AttractionForcePct)]
    ELSE ns

applyAttraction(ns, closed, i) ==
    LET towardsNext == AttractTo(ns, i, NextIndex(ns, closed, i)) IN
    AttractTo(towardsNext, i, PreviousIndex(ns, closed, i))

\* ---- Path.applyRepulsion ----
\* knn(tree, x, y, undefined, undefined, r * r): the indexed nodes within the
\* radius, nearest first; nodes at the same distance come in either order
Hits(ns, tr, i) ==
    {k \in 1..Len(ns) : ns[k].id \in tr /\ Dist2(ns[i], ns[k]) <= Sq(RepulsionRadius)}

\* the hits H of a query around node i, nearest first (equal distances: by index)
RECURSIVE NearestFirst(_, _, _)
NearestFirst(ns, i, H) ==
    IF H = {} THEN <<>>
    ELSE LET k == CHOOSE c \in H :
                      \A d \in H :
                          \/ Dist2(ns[i], ns[c]) < Dist2(ns[i], ns[d])
                          \/ Dist2(ns[i], ns[c]) = Dist2(ns[i], ns[d]) /\ c <= d
         IN  <<k>> \o NearestFirst(ns, i, H \ {k})

\* the farthest hit comes last; among several equally far, any of them
QueryResults(ns, tr, i) ==
    LET H == Hits(ns, tr, i)
        Farthest == {k \in H : \A d \in H : Dist2(ns[i], ns[k]) >= Dist2(ns[i], ns[d])}
    IN  IF H = {} THEN {<<>>}
        ELSE {Append(NearestFirst(ns, i, H \ {k}), k) : k \in Farthest}

\* the loop over the neighbours q[from..]: every pass assigns nextPosition
RECURSIVE RepelFrom(_, _, _, _)
RepelFrom(ns, i, q, from) ==
    IF from > Len(q) THEN ns
    ELSE RepelFrom([ns EXCEPT ![i].nx = Lerp(ns[i].x, ns[q[from]].x, -RepulsionForcePct),
                              ![i].ny = Lerp(ns[i].y, ns[q[from]].y, -RepulsionForcePct)],
                   i, q, from + 1)

applyRepulsion(ns, i, q) == RepelFrom(ns, i, q, 1)

\* ---- Path.applyAlignment ----
applyAlignment(ns, closed, i) ==
    LET p == PreviousIndex(ns, closed, i)
        n == NextIndex(ns, closed, i)
    IN  IF p # 0 /\ n # 0 /\ ~ns[i].isFixed
        THEN LET midpoint == getMidpointNode(0, ns[p], ns[n]) IN
             [ns EXCEPT ![i].nx = Lerp(@, midpoint.x, AlignmentForcePct),
                        ![i].ny = Lerp(@, midpoint.y, AlignmentForcePct)]
        ELSE ns

\* ---- Path.applyBounds ----
\* (variant: the flag is assigned the outcome of the test)
applyBoundsAssign(ns, b, i) ==
    IF b # 0
    THEN [ns EXCEPT ![i].isFixed = ~Contains(b, ns[i].x, ns[i].y)]
    ELSE ns

applyBounds(ns, b, i) ==
    IF b # 0 /\ ~Contains(b, ns[i].x, ns[i].y)
    THEN [ns EXCEPT ![i].isFixed = TRUE]
    ELSE ns

\* ---- Node.iterate ----
NodeIterate(ns, i) ==
    [ns EXCEPT ![i].x = Lerp(@, ns[i].nx, MaxVelocityPct),
               ![i].y = Lerp(@, ns[i].ny, MaxVelocityPct)]

\* ---- Path.injectRandomNode ----
\* the values parseInt(p5.random(1, length)) takes, 1-based
RandomIndexes(ns) ==
    IF Len(ns) >= 2 THEN 2..Len(ns) ELSE IF Len(ns) = 1 THEN {2} ELSE {1}

\* (variant: a midpoint is inserted whether there is a next node or not)
injectRandomNodeAnyEdge(ns, closed, i, nid) ==
    LET p == PreviousIndex(ns, closed, i) IN
    IF p # 0 /\ i <= Len(ns) /\ Dist2(ns[i], ns[p]) > Sq(MinDistance)
    THEN InsertAt(ns, i, getMidpointNode(nid, ns[i], ns[p]))
    ELSE ns

injectRandomNode(ns, closed, i, nid) ==
    LET p == PreviousIndex(ns, closed, i)
        n == NextIndex(ns, closed, i)
    IN  IF p # 0 /\ n # 0 /\ Dist2(ns[i], ns[p]) > Sq(MinDistance)
        THEN InsertAt(ns, i, getMidpointNode(nid, ns[i], ns[p]))
        ELSE ns

\* ---- Path.iterate: the order of its steps ----
FirstStep(bm) == IF bm THEN "jitter" ELSE "attraction"

\* (variant: repulsion is applied before attraction)
StepAfterSwapped(step) ==
    CASE step = "jitter"     -> "repulsion"
      [] step = "repulsion"  -> "attraction"
      [] step = "attraction" -> "alignment"
      [] step = "alignment"  -> "bounds"
      [] step = "bounds"     -> "commit"
      [] step = "split"      -> "prune"
      [] step = "prune"      -> "inject"
      [] step = "inject"     -> "idle"

\* the statement that follows a statement of iterate's body
StepAfter(step) ==
    CASE step = "jitter"     -> "attraction"
      [] step = "attraction" -> "repulsion"
      [] step = "repulsion"  -> "alignment"
      [] step = "alignment"  -> "bounds"
      [] step = "bounds"     -> "commit"
      [] step = "split"      -> "prune"
      [] step = "prune"      -> "inject"
      [] step = "inject"     -> "idle"

\* a step of the loop body on node idx is done; only applyRepulsion has a
\* query result, which the other steps leave alone
Stepped(step, name) ==
    /\ pc = step
    /\ pc' = StepAfter(step)
    /\ lastOp' = name
    /\ pre' = nodes
    /\ stepLog' = Append(stepLog, <<name, idx>>)
    /\ UNCHANGED <<isClosed, bounds, useBrownianMotion, lastNodeInjectTime>>
    /\ UNCHANGED <<millis, tree, neighbors, idx, ticks, nextId>>
    /\ UNCHANGED <<histVars, colorVars>>
    /\ UNCHANGED <<methodVars, sketchVars>>

\* the node positions of the paths the sketch starts with, in pixels
InitPaths ==
    {<<<<0, 0>>, <<0, 30>>>>,
     <<<<0, 0>>, <<12, 16>>>>,
     <<<<0, 0>>, <<12, 16>>, <<0, 30>>>>,
     <<<<0, 30>>, <<0, 0>>, <<12, 16>>>>}

Init ==
    /\ \E ps \in InitPaths :
          \E fixedFirst \in BOOLEAN :
              nodes = [k \in 1..Len(ps) |-> PxNode(k, ps[k], fixedFirst /\ k = 1)]
    /\ isClosed \in BOOLEAN
    /\ bounds \in 0..1
    /\ useBrownianMotion \in BOOLEAN
    /\ lastNodeInjectTime = 0
    /\ millis = 0
    /\ tree = {}
    /\ neighbors = <<>>
    /\ pc = "idle"
    /\ idx = 0
    /\ ticks = 0
    /\ stepLog = <<>>
    /\ fixedByBounds = {}
    /\ nextId = Len(nodes) + 1
    /\ lastOp = "new"
    /\ pre = nodes
    /\ InitNoHistory /\ InitDefaultColors
    /\ InitNoMethod /\ InitNoSketch

\* World.iterate: the index is rebuilt from all nodes, then Path.iterate starts
BeginIterate ==
    /\ pc = "idle"
    /\ ticks < MaxTicks
    /\ Len(nodes) <= MaxNodes
    /\ tree' = Ids(nodes)
    /\ \E dt \in FrameMillis : millis' = millis + dt
    /\ idx' = 1
    /\ pc' = IF Len(nodes) = 0 THEN "split" ELSE FirstStep(useBrownianMotion)
    /\ stepLog' = <<>>
    /\ lastOp' = "buildTree"
    /\ pre' = nodes
    /\ UNCHANGED <<pathVars, neighbors, ticks, nextId, fixedByBounds>>
    /\ UNCHANGED <<histVars, colorVars>>
    /\ UNCHANGED <<methodVars, sketchVars>>

Jitter ==
    /\ Stepped("jitter", "applyBrownianMotion")
    /\ \E d \in JitterOffsets : nodes' = applyBrownianMotion(nodes, idx, d)
    /\ UNCHANGED fixedByBounds

Attraction ==
    /\ Stepped("attraction", "applyAttraction")
    /\ nodes' = applyAttraction(nodes, isClosed, idx)
    /\ UNCHANGED fixedByBounds

Repulsion ==
    /\ pc = "repulsion"
    /\ pc' = StepAfter("repulsion")
    /\ \E q \in QueryResults(nodes, tree, idx) :
          /\ neighbors' = q
          /\ nodes' = applyRepulsion(nodes, idx, q)
    /\ lastOp' = "applyRepulsion"
    /\ pre' = nodes
    /\ stepLog' = Append(stepLog, <<"applyRepulsion", idx>>)
    /\ UNCHANGED <<isClosed, bounds, useBrownianMotion, lastNodeInjectTime>>
    /\ UNCHANGED <<millis, tree, idx, ticks, nextId, fixedByBounds>>
    /\ UNCHANGED <<histVars, colorVars>>
    /\ UNCHANGED <<methodVars, sketchVars>>

Alignment ==
    /\ Stepped("alignment", "applyAlignment")
    /\ nodes' = applyAlignment(nodes, isClosed, idx)
    /\ UNCHANGED fixedByBounds

ApplyBounds ==
    /\ Stepped("bounds", "applyBounds")
    /\ nodes' = applyBounds(nodes, bounds, idx)
    /\ fixedByBounds' =
          IF bounds # 0 /\ ~Contains(bounds, nodes[idx].x, nodes[idx].y)
          THEN fixedByBounds \cup {nodes[idx].id}
          ELSE fixedByBounds

\* node.iterate(), then the loop goes on to the next node or ends
Commit ==
    /\ pc = "commit"
    /\ nodes' = NodeIterate(nodes, idx)
    /\ IF idx < Len(nodes)
       THEN idx' = idx + 1 /\ pc' = FirstStep(useBrownianMotion)
       ELSE idx' = idx /\ pc' = "split"
    /\ lastOp' = "node.iterate"
    /\ pre' = nodes
    /\ stepLog' = Append(stepLog, <<"node.iterate", idx>>)
    /\ UNCHANGED <<isClosed, bounds, useBrownianMotion, lastNodeInjectTime>>
    /\ UNCHANGED <<millis, tree, neighbors, ticks, nextId, fixedByBounds>>
    /\ UNCHANGED <<histVars, colorVars>>
    /\ UNCHANGED <<methodVars, sketchVars>>

\* the three statements after the loop
AfterLoop(step, name) ==
    /\ pc = step
    /\ pc' = StepAfter(step)
    /\ lastOp' = name
    /\ pre' = nodes
    /\ nextId' = nextId + (IF Len(nodes') > Len(nodes) THEN Len(nodes') - Len(nodes) ELSE 0)
    /\ UNCHANGED <<isClosed, bounds, useBrownianMotion>>
    /\ UNCHANGED <<millis, tree, neighbors, idx, fixedByBounds>>
    /\ UNCHANGED <<histVars, colorVars>>
    /\ UNCHANGED <<methodVars, sketchVars>>

Split ==
    /\ nodes' = splitEdges(nodes, isClosed, nextId)
    /\ AfterLoop("split", "splitEdges")
    /\ stepLog' = Append(stepLog, <<"splitEdges", 0>>)
    /\ UNCHANGED <<lastNodeInjectTime, ticks>>

Prune ==
    /\ nodes' = pruneNodes(nodes, isClosed)
    /\ AfterLoop("prune", "pruneNodes")
    /\ stepLog' = Append(stepLog, <<"pruneNodes", 0>>)
    /\ UNCHANGED <<lastNodeInjectTime, ticks>>

\* if (millis() - lastNodeInjectTime >= NodeInjectionInterval) injectNode();
\* injectionMode is "RANDOM".  iterate returns.
Inject ==
    /\ pc = "inject"
    /\ \/ /\ millis - lastNodeInjectTime >= NodeInjectionInterval
          /\ \E i \in RandomIndexes(nodes) :
                nodes' = injectRandomNode(nodes, isClosed, i, nextId)
          /\ lastNodeInjectTime' = millis
          /\ stepLog' = Append(stepLog, <<"injectNode", 0>>)
       \/ /\ millis - lastNodeInjectTime < NodeInjectionInterval
          /\ UNCHANGED <<nodes, lastNodeInjectTime, stepLog>>
    /\ AfterLoop("inject", "iterate")
    /\ ticks' = ticks + 1

\* Path.setBounds(bounds), between two frames
SetBounds ==
    /\ pc = "idle"
    /\ ticks < MaxTicks
    /\ \E b \in 0..Len(BoundsPolygons) : b # bounds /\ bounds' = b
    /\ lastOp' = "setBounds"
    /\ pre' = nodes
    /\ UNCHANGED <<nodes, isClosed, useBrownianMotion, lastNodeInjectTime>>
    /\ UNCHANGED <<simVars, histVars, colorVars, nextId, stepLog, fixedByBounds>>
    /\ UNCHANGED <<methodVars, sketchVars>>

Next ==
    \/ BeginIterate
    \/ Jitter
    \/ Attraction
    \/ Repulsion
    \/ Alignment
    \/ ApplyBounds
    \/ Commit
    \/ Split
    \/ Prune
    \/ Inject
    \/ SetBounds

Spec == Init /\ [][Next]_vars

\* the steps of iterate that act on the nodes
IterateSteps ==
    {"applyBrownianMotion", "applyAttraction", "applyRepulsion", "applyAlignment",
     "applyBounds", "node.iterate", "splitEdges", "pruneNodes", "iterate"}

\* C3 as stated: no step of iterate (jitter, attraction, repulsion,
\* alignment, bounds check, commit, split, prune, injection) changes the
\* position (x, y) of a node whose isFixed flag is true.
C3_FixedNodesNeverMove ==
    lastOp \in IterateSteps =>
        \A k \in 1..Len(pre) :
            pre[k].isFixed =>
                \E m \in 1..Len(nodes) :
                    nodes[m].id = pre[k].id /\ Pos(nodes[m]) = Pos(pre[k])

\* C4: a node that applyBounds has fixed is still in the path and still
\* fixed, whatever iterate (its forces, split, prune, injection) and
\* setBounds have done since, also when the node is inside the Bounds again.
C4_FixedByBoundsStaysFixed ==
    \A id \in fixedByBounds :
        \E k \in 1..Len(nodes) : nodes[k].id = id /\ nodes[k].isFixed

\* in a later frame applyBounds has just looked at a node that it fixed
\* earlier and that now lies inside the Bounds
C4_Witness ==
    /\ lastOp = "applyBounds"
    /\ ticks >= 1
    /\ bounds # 0
    /\ nodes[idx].id \in fixedByBounds
    /\ nodes[idx].isFixed
    /\ Contains(bounds, nodes[idx].x, nodes[idx].y)

\* ---- the order of the steps of one iterate call ----
StepsOfNode(k, bm) ==
    (IF bm THEN <<<<"applyBrownianMotion", k>>>> ELSE <<>>)
        \o <<<<"applyAttraction", k>>, <<"applyRepulsion", k>>, <<"applyAlignment", k>>,
             <<"applyBounds", k>>, <<"node.iterate", k>>>>

RECURSIVE StepsOfNodes(_, _, _)
StepsOfNodes(k, n, bm) ==
    IF k > n THEN <<>> ELSE StepsOfNode(k, bm) \o StepsOfNodes(k + 1, n, bm)

StepsOfTick(n, bm) ==
    StepsOfNodes(1, n, bm)
        \o <<<<"splitEdges", 0>>, <<"pruneNodes", 0>>, <<"injectNode", 0>>>>

IsPrefix(s, t) == Len(s) <= Len(t) /\ s = SubSeq(t, 1, Len(s))

\* C8: the steps of one iterate call are, node after node in sequence
\* order, jitter (only if enabled), attraction, repulsion, alignment, bounds
\* check, commit; then splitEdges, pruneNodes and, exactly if the injection
\* interval had elapsed, injectNode.
C8_StepOrder ==
    LET whole == StepsOfTick(Cardinality(tree), useBrownianMotion) IN
    /\ IsPrefix(stepLog, whole)
    /\ (pc = "idle" /\ ticks > 0) =>
          /\ Len(stepLog) >= Len(whole) - 1
          /\ Len(stepLog) = Len(whole) <=> lastNodeInjectTime = millis

\* a whole frame with jitter and injection on a path of three nodes
C8_Witness ==
    /\ pc = "idle"
    /\ ticks > 0
    /\ useBrownianMotion
    /\ Cardinality(tree) = 3
    /\ stepLog = StepsOfTick(3, TRUE)

\* applyRepulsion as documented: every neighbour pushes nextPosition, in place
RECURSIVE RepelInPlaceFrom(_, _, _, _)
RepelInPlaceFrom(ns, i, q, from) ==
    IF from > Len(q) THEN ns
    ELSE RepelInPlaceFrom([ns EXCEPT ![i].nx = Lerp(@, ns[q[from]].x, -RepulsionForcePct),
                                     ![i].ny = Lerp(@, ns[q[from]].y, -RepulsionForcePct)],
                          i, q, from + 1)

\* C9 as stated: after applyRepulsion, nextPosition is what was accumulated
\* before (by attraction) pushed away from every neighbour of the query
\* result in turn.
C9_RepulsionAccumulates ==
    lastOp = "applyRepulsion" =>
        nodes[idx] = RepelInPlaceFrom(pre, idx, neighbors, 1)[idx]

\* =========================================================================
\* SpecHistory: addToHistory() between edits of the path
\* =========================================================================
\* ---- bounds of the model ----
\* largest MaxHistorySize configured, and the number of snapshots taken
MaxCapacity == 3
MaxCaptures == 5

\* JSON.parse(JSON.stringify(this.nodes)): a copy of the nodes' values; seq
\* numbers the snapshots in the order they were taken (ghost)
Snapshot(ns, seq) == [seq |-> seq, nodes |-> ns]

\* (variant: the newest snapshot is dropped, not the oldest)
addToHistoryPop(history, size, ns, seq) ==
    Append(IF Len(history) = size /\ Len(history) > 0
           THEN SubSeq(history, 1, Len(history) - 1)
           ELSE history,
           Snapshot(ns, seq))

\* ---- Path.addToHistory ----
\* (Array.shift leaves an empty array empty)
addToHistory(history, size, ns, seq) ==
    Append(IF Len(history) = size /\ Len(history) > 0
           THEN Tail(history)
           ELSE history,
           Snapshot(ns, seq))

InitHistory ==
    /\ \E ps \in InitPaths :
          nodes = [k \in 1..Len(ps) |-> PxNode(k, ps[k], FALSE)]
    /\ isClosed \in BOOLEAN
    /\ nextId = Len(nodes) + 1
    /\ lastOp = "new"
    /\ pre = nodes
    /\ nodeHistory = <<>>
    /\ maxHistorySize \in 0..MaxCapacity
    /\ captured = 0
    /\ InitNoSim /\ InitDefaultColors
    /\ InitNoMethod /\ InitNoSketch

AddToHistoryCall ==
    /\ captured < MaxCaptures
    /\ nodeHistory' = addToHistory(nodeHistory, maxHistorySize, nodes, captured + 1)
    /\ captured' = captured + 1
    /\ lastOp' = "addToHistory"
    /\ pre' = nodes
    /\ UNCHANGED <<pathVars, simVars, colorVars, maxHistorySize, nextId, stepLog, fixedByBounds>>
    /\ UNCHANGED <<methodVars, sketchVars>>

NextHistory == AddToHistoryCall \/ SplitEdgesCall

SpecHistory == InitHistory /\ [][NextHistory]_vars

\* the history holds the latest snapshots, oldest first, none missing
LatestInOrder ==
    \A k \in 1..Len(nodeHistory) :
        nodeHistory[k].seq = captured - Len(nodeHistory) + k

\* C5 as stated: for any configured MaxHistorySize the history never holds
\* more than MaxHistorySize snapshots, and what it holds are the latest
\* snapshots in the order they were taken (the oldest is dropped first).
C5_HistoryBounded ==
    /\ Len(nodeHistory) <= maxHistorySize
    /\ LatestInOrder

\* C5 amended: for any configured MaxHistorySize of at least 1 the history
\* never holds more than MaxHistorySize snapshots, and what it holds are the
\* latest snapshots in the order they were taken (the oldest is dropped first).
C5_HistoryBoundedIfPositive ==
    maxHistorySize >= 1 =>
        /\ Len(nodeHistory) <= maxHistorySize
        /\ LatestInOrder

\* a full history of two snapshots of different paths, after an eviction
C5_Witness ==
    /\ lastOp = "addToHistory"
    /\ maxHistorySize = 2
    /\ Len(nodeHistory) = 2
    /\ captured >= 4
    /\ nodeHistory[1].nodes # nodeHistory[2].nodes

\* =========================================================================
\* SpecColors: the colour and trace switches of a Path
\* =========================================================================
\* alpha values the colour arguments of the constructor are given
Alphas == {255, 128}

\* the colour object a reference points to
FillOf(inverted) == IF ~inverted THEN "fillColor" ELSE "invertedFillColor"
StrokeOf(inverted) == IF ~inverted THEN "strokeColor" ELSE "invertedStrokeColor"

\* ---- Path.setTraceMode: writes the opacity into the current colour objects
setTraceMode(cols, fill, stroke, state) ==
    IF ~state
    THEN [cols EXCEPT ![fill].a = 255, ![stroke].a = 255]
    ELSE [cols EXCEPT ![fill].a = 255, ![stroke].a = 255]

\* (variant: the two pairs are taken the wrong way round)
setInvertedColorsSwapped(state) ==
    [fill |-> FillOf(~state), stroke |-> StrokeOf(~state)]

\* ---- Path.setInvertedColors: the colour objects made current
setInvertedColors(state) ==
    [fill |-> FillOf(state), stroke |-> StrokeOf(state)]

\* the values of the active colours
ActiveColors ==
    [fill |-> colors[currentFillColor], stroke |-> colors[currentStrokeColor]]

InitColors ==
    /\ \E ps \in InitPaths :
          \E fixedFirst \in BOOLEAN :
              nodes = [k \in 1..Len(ps) |-> PxNode(k, ps[k], fixedFirst /\ k = 1)]
    /\ isClosed \in BOOLEAN
    /\ nextId = Len(nodes) + 1
    /\ lastOp = "new"
    /\ pre = nodes
    /\ InitNoSim /\ InitNoHistory
    /\ InitNoMethod /\ InitNoSketch
    /\ \E af, as, aif, ais \in Alphas :
          colors = [fillColor |-> [h |-> 0, s |-> 0, b |-> 0, a |-> af],
                    strokeColor |-> [h |-> 0, s |-> 0, b |-> 0, a |-> as],
                    invertedFillColor |-> [h |-> 0, s |-> 0, b |-> 255, a |-> aif],
                    invertedStrokeColor |-> [h |-> 0, s |-> 0, b |-> 255, a |-> ais]]
    /\ configuredColors = colors
    /\ invertedColors \in BOOLEAN
    /\ traceMode \in BOOLEAN
    /\ currentFillColor = FillOf(invertedColors)
    /\ currentStrokeColor = StrokeOf(invertedColors)
    /\ toggleLog = <<>>

\* the body of setInvertedColors(state)
DoSetInvertedColors(state) ==
    LET current == setInvertedColors(state) IN
    /\ invertedColors' = state
    /\ currentFillColor' = current.fill
    /\ currentStrokeColor' = current.stroke
    /\ colors' = setTraceMode(colors, current.fill, current.stroke, traceMode)
    /\ pre' = nodes
    /\ UNCHANGED <<pathVars, simVars, histVars, traceMode, configuredColors>>
    /\ UNCHANGED <<nextId, stepLog, fixedByBounds>>
    /\ UNCHANGED <<methodVars, sketchVars>>

SetInvertedColorsCall ==
    /\ \E state \in BOOLEAN : DoSetInvertedColors(state)
    /\ lastOp' = "setInvertedColors"
    /\ toggleLog' = <<>>

ToggleInvertedColorsCall ==
    /\ DoSetInvertedColors(~invertedColors)
    /\ lastOp' = "toggleInvertedColors"
    /\ toggleLog' = IF toggleLog = <<>> THEN <<ActiveColors>>
                    ELSE <<toggleLog[Len(toggleLog)], ActiveColors>>

\* setTraceMode(state) and toggleTraceMode()
SetTraceModeCall ==
    /\ \E state \in BOOLEAN :
          /\ traceMode' = state
          /\ colors' = setTraceMode(colors, currentFillColor, currentStrokeColor, state)
    /\ lastOp' = "setTraceMode"
    /\ toggleLog' = <<>>
    /\ pre' = nodes
    /\ UNCHANGED <<pathVars, simVars, histVars>>
    /\ UNCHANGED <<currentFillColor, currentStrokeColor, invertedColors, configuredColors>>
    /\ UNCHANGED <<nextId, stepLog, fixedByBounds>>
    /\ UNCHANGED <<methodVars, sketchVars>>

NextColors == SetInvertedColorsCall \/ ToggleInvertedColorsCall \/ SetTraceModeCall

SpecColors == InitColors /\ [][NextColors]_vars

\* the colour pair configured for an invert state
ConfiguredPair(inverted) ==
    [fill |-> configuredColors[FillOf(inverted)],
     stroke |-> configuredColors[StrokeOf(inverted)]]

\* a colour pair with its opacity set to 255
Opaque(pair) == [pair EXCEPT !.fill.a = 255, !.stroke.a = 255]

InvertOps == {"setInvertedColors", "toggleInvertedColors"}

\* C7 as stated: setInvertedColors(state) / toggleInvertedColors() makes the
\* configured inverted pair (state true) or normal pair (state false) the
\* active colours, keeps the trace mode, leaves nodes, isClosed and bounds
\* unchanged, and two toggles in a row restore the active colours.
C7_InvertColors ==
    [][lastOp' \in InvertOps =>
          /\ ActiveColors' = ConfiguredPair(invertedColors')
          /\ traceMode' = traceMode
          /\ UNCHANGED <<nodes, isClosed, bounds>>
          /\ Len(toggleLog') = 2 => ActiveColors' = toggleLog'[1]]_vars

\* C7 amended: setInvertedColors(state) / toggleInvertedColors() makes the
\* configured inverted pair (state true) or normal pair (state false) the
\* active colours with their opacity (a) set to 255, keeps the trace mode,
\* leaves nodes, isClosed and bounds unchanged, and two toggles in a row
\* restore the active colours except that their opacity is 255.
C7_InvertColorsOpaque ==
    [][lastOp' \in InvertOps =>
          /\ ActiveColors' = Opaque(ConfiguredPair(invertedColors'))
          /\ traceMode' = traceMode
          /\ UNCHANGED <<nodes, isClosed, bounds>>
          /\ Len(toggleLog') = 2 => ActiveColors' = Opaque(toggleLog'[1])]_vars

\* two toggles in a row on a closed path whose colours were translucent
C7_Witness ==
    /\ lastOp = "toggleInvertedColors"
    /\ Len(toggleLog) = 2
    /\ toggleLog[1].fill.a # 255
    /\ isClosed
    /\ Len(nodes) = 3

\* =========================================================================
\* SpecInject: injectRandomNode(), injectNodeByCurvature() and
\* getConnectedNodes(index) called on paths built by the constructor
\* =========================================================================
\* ---- bounds of the model ----
\* the longest path an injection is called on
MaxPathNodes == 4

InjectPoints == {<<0, 0>>, <<0, 8>>, <<0, 10>>, <<0, 30>>, <<12, 16>>}

\* ---- Path.getConnectedNodes ----
\* the object returned: <<>> stands for undefined, <<node>> for a Node
getConnectedNodes(ns, closed, i) ==
    LET p == PreviousIndex(ns, closed, i)
        n == NextIndex(ns, closed, i)
    IN  [previousNode |-> IF p = 0 THEN <<>> ELSE <<ns[p]>>,
         nextNode |-> IF n = 0 THEN <<>> ELSE <<ns[n]>>]

InitInject ==
    /\ \E ps \in SeqsUpTo(InjectPoints, MaxInitNodes) :
          nodes = [k \in 1..Len(ps) |-> PxNode(k, ps[k], FALSE)]
    /\ isClosed \in BOOLEAN
    /\ nextId = Len(nodes) + 1
    /\ lastOp = "new"
    /\ pre = nodes
    /\ InitNoSim /\ InitNoHistory /\ InitDefaultColors
    /\ InitNoMethod /\ InitNoSketch

\* what a call of a method of the Path leaves alone
MethodCalled(name) ==
    /\ lastOp' = name
    /\ pre' = nodes
    /\ nextId' = nextId + (Len(nodes') - Len(nodes))
    /\ UNCHANGED <<isClosed, bounds, useBrownianMotion, lastNodeInjectTime>>
    /\ UNCHANGED <<simVars, histVars, colorVars, stepLog, fixedByBounds>>
    /\ UNCHANGED <<maxDistance, sketchVars>>

InjectRandomNodeCall ==
    /\ Len(nodes) < MaxPathNodes
    /\ \E i \in RandomIndexes(nodes) :
          /\ index' = i
          /\ connectedNodes' = getConnectedNodes(nodes, isClosed, i)
          /\ nodes' = injectRandomNode(nodes, isClosed, i, nextId)
    /\ MethodCalled("injectRandomNode")

GetConnectedNodesCall ==
    /\ \E i \in 1..Len(nodes) :
          /\ index' = i
          /\ connectedNodes' = getConnectedNodes(nodes, isClosed, i)
    /\ nodes' = nodes
    /\ MethodCalled("getConnectedNodes")

\* ---- Path.injectNodeByCurvature ----
\* the angle the test compares with
CurvatureAngle == 20

Abs(v) == IF v < 0 THEN -v ELSE v

\* Math.round(Math.abs(Math.atan(n / d))) for n, d not both 0: atan is in
\* radians, below pi/2.  It rounds to 0 below tan(0.5) = 0.546302..., to 1
\* below tan(1.5) = 14.10142..., else to 2 (n / d is infinite when d = 0).
RoundedAtan(n, d) ==
    IF Abs(n) * 1000000 < 546302 * Abs(d) THEN 0
    ELSE IF Abs(n) * 100000 < 1410142 * Abs(d) THEN 1
    ELSE 2

\* angle > 20; 0 / 0 is NaN, and no comparison with NaN holds
AngleTest(n, d) == ~(n = 0 /\ d = 0) /\ RoundedAtan(n, d) > CurvatureAngle

\* the two splice calls for index 0, and the one for the other indexes
ReplaceByMidpoints(ns, i, previousMidpointNode, nextMidpointNode) ==
    IF i = 1
    THEN InsertAt(InsertAt(ns, Len(ns), previousMidpointNode), 1, nextMidpointNode)
    ELSE SubSeq(ns, 1, i - 1) \o <<previousMidpointNode, nextMidpointNode>>
             \o SubSeq(ns, i + 1, Len(ns))

\* the for..of loop over the live array, from position i on
RECURSIVE CurvatureFrom(_, _, _, _)
CurvatureFrom(ns, closed, i, nid) ==
    IF i > Len(ns) THEN ns
    ELSE LET p == PreviousIndex(ns, closed, i)
             n == NextIndex(ns, closed, i)
         IN  IF p = 0 \/ n = 0 THEN CurvatureFrom(ns, closed, i + 1, nid)
             ELSE IF AngleTest(ns[n].y - ns[p].y, ns[n].x - ns[p].x)
                  THEN CurvatureFrom(
                           ReplaceByMidpoints(ns, i,
                               getMidpointNode(nid, ns[i], ns[p]),
                               getMidpointNode(nid + 1, ns[i], ns[n])),
                           closed, i + 1, nid + 2)
                  ELSE CurvatureFrom(ns, closed, i + 1, nid)

injectNodeByCurvature(ns, closed, nid) == CurvatureFrom(ns, closed, 1, nid)

InjectNodeByCurvatureCall ==
    /\ Len(nodes) < MaxPathNodes
    /\ nodes' = injectNodeByCurvature(nodes, isClosed, nextId)
    /\ index' = Len(nodes')
    /\ connectedNodes' =
          IF Len(nodes') = 0 THEN connectedNodes
          ELSE getConnectedNodes(nodes', isClosed, Len(nodes'))
    /\ MethodCalled("injectNodeByCurvature")

NextInject == InjectRandomNodeCall \/ InjectNodeByCurvatureCall \/ GetConnectedNodesCall

SpecInject == InitInject /\ [][NextInject]_vars

\* one node has been inserted at position i of ns: a new, non-fixed node
\* halfway between the node that was at i and its previous neighbour
MidpointInsertedAt(before, after, i) ==
    /\ Len(after) = Len(before) + 1
    /\ RemoveAt(after, i) = before
    /\ after[i].id \notin Ids(before)
    /\ ~after[i].isFixed
    /\ LET a == before[i]
           b == before[PreviousIndex(before, isClosed, i)]
       IN  Pos(after[i]) = <<(a.x + b.x) \div 2, (a.y + b.y) \div 2>>

\* C11 as stated: injectRandomNode() picks an index and, whenever that node
\* has a previous neighbour and is farther than MinDistance from it (the
\* last node of an open Path included), exactly one midpoint node is
\* inserted between the two; otherwise the node sequence is unchanged.
C11_InjectsAtEveryEdge ==
    lastOp = "injectRandomNode" =>
        IF /\ index <= Len(pre)
           /\ PreviousIndex(pre, isClosed, index) # 0
           /\ Dist2(pre[index], pre[PreviousIndex(pre, isClosed, index)]) > Sq(MinDistance)
        THEN MidpointInsertedAt(pre, nodes, index)
        ELSE nodes = pre

\* C11 amended: injectRandomNode() picks an index other than the first and,
\* whenever that node has both a previous and a next neighbour and is
\* farther than MinDistance from the previous one, exactly one midpoint node
\* is inserted between the two; otherwise (always at the last node of an
\* open Path) the node sequence is unchanged.
C11_InjectsAtInnerEdge ==
    lastOp = "injectRandomNode" =>
        /\ index >= 2
        /\ IF /\ index <= Len(pre)
              /\ PreviousIndex(pre, isClosed, index) # 0
              /\ NextIndex(pre, isClosed, index) # 0
              /\ Dist2(pre[index], pre[PreviousIndex(pre, isClosed, index)]) > Sq(MinDistance)
           THEN MidpointInsertedAt(pre, nodes, index)
           ELSE nodes = pre

\* a midpoint has been inserted before the last node of a closed path
C11_Witness ==
    /\ lastOp = "injectRandomNode"
    /\ isClosed
    /\ Len(pre) = 3
    /\ index = Len(pre)
    /\ Len(nodes) = Len(pre) + 1

\* the slope angle |atan(n / d)| of the line through the two neighbours,
\* taken in degrees and rounded, exceeds CurvatureAngle: it is at least 20.5
\* degrees, and tan(20.5 degrees) = 0.373884...; a vertical line is at 90
Sharp(ns, closed, k) ==
    LET p == PreviousIndex(ns, closed, k)
        n == NextIndex(ns, closed, k)
    IN  /\ p # 0
        /\ n # 0
        /\ LET dy == ns[n].y - ns[p].y
               dx == ns[n].x - ns[p].x
           IN  /\ ~(dy = 0 /\ dx = 0)
               /\ Abs(dy) * 1000000 >= 373885 * Abs(dx)

\* two new nodes, halfway to the previous and halfway to the next neighbour,
\* stand next to each other in the sequence
MidpointsInPlaceOf(before, after, closed, k) ==
    LET a == before[k]
        b == before[PreviousIndex(before, closed, k)]
        c == before[NextIndex(before, closed, k)]
    IN  \E j \in 1..(Len(after) - 1) :
            /\ Pos(after[j]) = <<(a.x + b.x) \div 2, (a.y + b.y) \div 2>>
            /\ Pos(after[j + 1]) = <<(a.x + c.x) \div 2, (a.y + c.y) \div 2>>
            /\ {after[j].id, after[j + 1].id} \cap Ids(before) = {}

\* C12 as stated, the turning-angle test being that the slope angle of the
\* line through the two neighbours exceeds 20 degrees: after
\* injectNodeByCurvature() every node that had two neighbours and passed the
\* test is gone from the sequence, and where it was the only such node, the
\* previous-midpoint followed by the next-midpoint stand in its place.
C12_SharpNodesReplaced ==
    lastOp = "injectNodeByCurvature" =>
        \A k \in 1..Len(pre) :
            Sharp(pre, isClosed, k) =>
                /\ pre[k].id \notin Ids(nodes)
                /\ (\A m \in 1..Len(pre) : Sharp(pre, isClosed, m) => m = k) =>
                       MidpointsInPlaceOf(pre, nodes, isClosed, k)

Delay == 1000

\* ---- bounds of the model ----
\* calls of restartWorld (the one in setup included), and steps of the clock
MaxRestarts == 3
MaxClockSteps == 4

\* the clock is looked at twice per Delay
ClockStep == Delay \div 2

\* the keys of p5.keyReleased that restart or pause the simulation; the
\* other keys toggle flags of the drawing
Keys == {"1", "2", "3", "4", "r", " "}

\* currentLineType after a key
LineTypeAfter(key, type) ==
    CASE key = "1" -> "HORIZONTAL"
      [] key = "2" -> "VERTICAL"
      [] key = "3" -> "ANGLED"
      [] key = "4" -> "RADIAL"
      [] OTHER -> type

\* the two nodes of the first line a layout creates, in pixels from the
\* corner of its grid or the centre of its arc
LayoutLine(type) ==
    CASE type = "HORIZONTAL" -> <<<<0, 0>>, <<30, 0>>>>
      [] type = "VERTICAL" -> <<<<0, 0>>, <<0, 30>>>>
      [] type = "ANGLED" -> <<<<0, 0>>, <<-30, 30>>>>
      [] type = "RADIAL" -> <<<<75, 0>>, <<125, 0>>>>
      [] type = "OPPOSING_ARCS" -> <<<<0, -375>>, <<0, -475>>>>

\* a setTimeout callback: n numbers the restartWorld call that scheduled it
\* at time at
Timer(n, at) == [n |-> n, at |-> at]

\* (variant: the callback may run as soon as it is scheduled)
TimerDueAtOnce(t, now) == now >= t.at

\* the event loop may run a callback once its delay has passed
TimerDue(t, now) == now >= t.at + Delay

\* world.clearPaths() and the Path the layout constructs
NewPath(type) ==
    /\ nodes' = [k \in 1..2 |-> PxNode(k, LayoutLine(type)[k], FALSE)]
    /\ isClosed' = FALSE
    /\ bounds' = 0
    /\ lastNodeInjectTime' = 0
    /\ nodeHistory' = <<>>
    /\ captured' = 0
    /\ colors' = DefaultColors
    /\ configuredColors' = DefaultColors
    /\ invertedColors' = TRUE
    /\ traceMode' = FALSE
    /\ currentFillColor' = "invertedFillColor"
    /\ currentStrokeColor' = "invertedStrokeColor"
    /\ toggleLog' = <<>>
    /\ nextId' = 3
    /\ fixedByBounds' = {}
    /\ UNCHANGED <<useBrownianMotion, maxHistorySize, stepLog>>

\* restartWorld(): new paths, world.pause(), setTimeout(unpause, 1000)
RestartWorld(type) ==
    /\ NewPath(type)
    /\ paused' = TRUE
    /\ timers' = timers \cup {Timer(Len(restarts) + 1, clock)}
    /\ restarts' = Append(restarts, clock)
    /\ pauseSetBy' = [who |-> "restartWorld", at |-> clock]
    /\ lastOp' = "restartWorld"
    /\ pre' = nodes

\* the sketch after p5.setup: the World is new and restartWorld() has run
InitSketch ==
    /\ nodes = [k \in 1..2 |-> PxNode(k, LayoutLine("OPPOSING_ARCS")[k], FALSE)]
    /\ isClosed = FALSE
    /\ nextId = 3
    /\ lastOp = "restartWorld"
    /\ pre = nodes
    /\ InitNoSim /\ InitNoHistory /\ InitDefaultColors /\ InitNoMethod
    /\ paused = TRUE
    /\ timers = {Timer(1, 0)}
    /\ clock = 0
    /\ currentLineType = "OPPOSING_ARCS"
    /\ restarts = <<0>>
    /\ pauseSetBy = [who |-> "restartWorld", at |-> 0]
    /\ fired = Timer(0, 0)

\* case ' ': world.paused = !world.paused
TogglePause ==
    /\ paused' = ~paused
    /\ pauseSetBy' = [who |-> IF paused THEN "nobody" ELSE "user", at |-> clock]
    /\ lastOp' = "togglePause"
    /\ pre' = nodes
    /\ UNCHANGED <<pathVars, histVars, colorVars, nextId, stepLog, fixedByBounds>>
    /\ UNCHANGED <<timers, restarts>>

\* p5.keyReleased
KeyReleased ==
    /\ \E key \in Keys :
          /\ currentLineType' = LineTypeAfter(key, currentLineType)
          /\ IF key = " "
             THEN TogglePause
             ELSE /\ Len(restarts) < MaxRestarts
                  /\ RestartWorld(currentLineType')
    /\ UNCHANGED <<simVars, methodVars, clock, fired>>

\* the callback given to setTimeout runs: world.unpause()
TimerFires ==
    /\ \E t \in timers :
          /\ TimerDue(t, clock)
          /\ timers' = timers \ {t}
          /\ fired' = t
    /\ paused' = FALSE
    /\ pauseSetBy' = [who |-> "nobody", at |-> clock]
    /\ lastOp' = "timer"
    /\ pre' = nodes
    /\ UNCHANGED <<pathVars, simVars, histVars, colorVars, methodVars>>
    /\ UNCHANGED <<nextId, stepLog, fixedByBounds, clock, currentLineType, restarts>>

\* time passes
ClockAdvances ==
    /\ clock < MaxClockSteps * ClockStep
    /\ clock' = clock + ClockStep
    /\ UNCHANGED <<pathVars, simVars, histVars, colorVars, ghostVars, methodVars>>
    /\ UNCHANGED <<paused, timers, currentLineType, restarts, pauseSetBy, fired>>

NextSketch == KeyReleased \/ TimerFires \/ ClockAdvances

SpecSketch == InitSketch /\ [][NextSketch]_vars

\* a step in which a timer's callback runs
TimerRuns == fired' # fired

\* C14 as stated: restartWorld() leaves the World paused; a timer never
\* unpauses the World less than 1000 ms after the most recent restartWorld(),
\* and never clears a pause the user set after the timer was scheduled.
C14_UnpausedOnlyAfterLastRestart ==
    [][/\ Len(restarts') > Len(restarts) => paused'
       /\ TimerRuns =>
             /\ clock >= restarts[Len(restarts)] + Delay
             /\ ~(paused /\ pauseSetBy.who = "user" /\ fired'.at <= pauseSetBy.at)]_vars

\* C14 amended: restartWorld() leaves the World paused and schedules one
\* timer; no timer is ever cancelled, and each one unpauses the World, no
\* less than 1000 ms after the restartWorld() that scheduled it, whatever
\* restarts and pauses by the user have happened since.
C14_UnpausedAfterOwnRestart ==
    [][/\ Len(restarts') > Len(restarts) =>
             /\ paused'
             /\ timers' = timers \cup {Timer(Len(restarts'), clock)}
             /\ Timer(Len(restarts'), clock) \notin timers
       /\ TimerRuns =>
             /\ fired' \in timers
             /\ clock >= fired'.at + Delay
             /\ ~paused'
       /\ timers \subseteq timers' \cup {fired'}]_vars

\* a timer of an earlier restart has just unpaused the World less than
\* 1000 ms after the latest restart, whose own timer is still to run
C14_Witness ==
    /\ lastOp = "timer"
    /\ ~paused
    /\ fired.n < Len(restarts)
    /\ clock < restarts[Len(restarts)] + Delay
    /\ Timer(Len(restarts), restarts[Len(restarts)]) \in timers

\* =========================================================================
\* SpecSplitLoop: splitEdges() one pass of its loop at a time, with
\* setMaxDistance() between calls, on Paths that lie 2^(52 - FracBits) px
\* from the origin: there neighbouring doubles are 1/Unit px apart, and a
\* position is the number of such steps from that place
\* =========================================================================
\* ---- bounds of the model ----
\* the longest path the loop is followed on
MaxSplitNodes == 40

\* node positions, in steps of 1/Unit px
LoopPoints == {<<0, 0>>, <<0, 1>>, <<4, 3>>}

\* the values setMaxDistance is called with, in steps of 1/Unit px
MaxDistances == {1, 2, 5}

\* (variant: the node inserted is at the previous node's place, not halfway)
splitEdgesPassNoHalving(ns, closed, i, nid, maxd) ==
    LET p == PreviousIndex(ns, closed, i) IN
    IF p # 0 /\ Dist2(ns[i], ns[p]) >= maxd * maxd
    THEN LET mid == getMidpointNode(nid, ns[p], ns[p]) IN
         IF i = 1 THEN Append(ns, mid) ELSE InsertAt(ns, i, mid)
    ELSE ns

\* ---- Path.splitEdges: the body of its loop, at position i of the live array
splitEdgesPass(ns, closed, i, nid, maxd) ==
    LET p == PreviousIndex(ns, closed, i) IN
    IF p # 0 /\ Dist2(ns[i], ns[p]) >= maxd * maxd
    THEN LET mid == getMidpointNode(nid, ns[i], ns[p]) IN
         IF i = 1 THEN Append(ns, mid) ELSE InsertAt(ns, i, mid)
    ELSE ns

InitSplitLoop ==
    /\ \E ps \in SeqsUpTo(LoopPoints, MaxInitNodes) :
          nodes = [k \in 1..Len(ps) |-> NewNode(k, ps[k][1], ps[k][2], FALSE)]
    /\ isClosed \in BOOLEAN
    /\ nextId = Len(nodes) + 1
    /\ lastOp = "new"
    /\ pre = nodes
    /\ InitNoSim /\ InitNoHistory /\ InitDefaultColors
    /\ index = 0
    /\ connectedNodes = [previousNode |-> <<>>, nextNode |-> <<>>]
    /\ maxDistance \in MaxDistances
    /\ InitNoSketch

\* what the steps of splitEdges and setMaxDistance leave alone
LoopUnchanged ==
    /\ UNCHANGED <<isClosed, bounds, useBrownianMotion, lastNodeInjectTime>>
    /\ UNCHANGED <<millis, tree, neighbors, idx, ticks>>
    /\ UNCHANGED <<histVars, colorVars, stepLog, fixedByBounds, sketchVars>>

\* splitEdges() is called: the iterator starts at the first node
SplitEdgesBegin ==
    /\ pc = "idle"
    /\ pc' = "splitEdges"
    /\ index' = 1
    /\ pre' = nodes
    /\ lastOp' = "splitEdges called"
    /\ UNCHANGED <<nodes, nextId, connectedNodes, maxDistance>>
    /\ LoopUnchanged

\* one pass of the loop
SplitEdgesPass ==
    /\ pc = "splitEdges"
    /\ index <= Len(nodes)
    /\ Len(nodes) < MaxSplitNodes
    /\ connectedNodes' = getConnectedNodes(nodes, isClosed, index)
    /\ nodes' = splitEdgesPass(nodes, isClosed, index, nextId, maxDistance)
    /\ nextId' = nextId + (Len(nodes') - Len(nodes))
    /\ index' = index + 1
    /\ UNCHANGED <<pc, pre, lastOp, maxDistance>>
    /\ LoopUnchanged

\* the iterator is past the end of the array: splitEdges() returns
SplitEdgesReturn ==
    /\ pc = "splitEdges"
    /\ index > Len(nodes)
    /\ pc' = "idle"
    /\ lastOp' = "splitEdges"
    /\ UNCHANGED <<nodes, nextId, index, connectedNodes, pre, maxDistance>>
    /\ LoopUnchanged

\* setMaxDistance(maxDistance), between two calls of splitEdges
SetMaxDistanceCall ==
    /\ pc = "idle"
    /\ \E d \in MaxDistances : d # maxDistance /\ maxDistance' = d
    /\ lastOp' = "setMaxDistance"
    /\ pre' = nodes
    /\ UNCHANGED <<nodes, nextId, index, connectedNodes, pc>>
    /\ LoopUnchanged

NextSplitLoop ==
    SplitEdgesBegin \/ SplitEdgesPass \/ SplitEdgesReturn \/ SetMaxDistanceCall

\* a call of splitEdges runs to its end without yielding
SpecSplitLoop ==
    /\ InitSplitLoop
    /\ [][NextSplitLoop]_vars
    /\ WF_vars(SplitEdgesPass)
    /\ WF_vars(SplitEdgesReturn)

\* a pass of the loop that inserts a node
PassInserts == pc = "splitEdges" /\ Len(nodes') = Len(nodes) + 1

\* after an insertion before the node (any node but the first), the iterator
\* looks at the node again: the edge to its new previous node is shorter
\* than the edge that was split
ReExaminedEdgeShorter ==
    index > 1 =>
        Dist2(nodes'[index + 1], nodes'[index]) < Dist2(nodes[index], nodes[index - 1])

\* C15 as stated: for every MaxDistance > 0, each node splitEdges() inserts
\* makes the edge it re-examines next shorter, the path stays of bounded
\* length (finitely many nodes are inserted), and every call returns.
C15_SplitEdgesTerminates ==
    /\ [][PassInserts => ReExaminedEdgeShorter]_vars
    /\ [](Len(nodes) < MaxSplitNodes)
    /\ (pc = "splitEdges") ~> (pc = "idle")

\* C15 amended: for every MaxDistance of at least twice the spacing of the
\* coordinate values at the nodes, each node splitEdges() inserts makes the
\* edge it re-examines next shorter, the path stays of bounded length
\* (finitely many nodes are inserted), and every call returns.
C15_SplitEdgesTerminatesAboveSpacing ==
    /\ [][(PassInserts /\ maxDistance >= 2) => ReExaminedEdgeShorter]_vars
    /\ [](maxDistance >= 2 => Len(nodes) < MaxSplitNodes)
    /\ (pc = "splitEdges" /\ maxDistance >= 2) ~> (pc = "idle")

\* a call on a closed path with MaxDistance twice the spacing has returned
\* after inserting at least three nodes, one of them at a rounded midpoint
C15_Witness ==
    /\ lastOp = "splitEdges"
    /\ pc = "idle"
    /\ isClosed
    /\ maxDistance = 2
    /\ Len(nodes) >= Len(pre) + 3
    /\ \E k \in 2..(Len(nodes) - 1) :
          (nodes[k - 1].x + nodes[k + 1].x) % 2 = 1
              /\ nodes[k].x = Halved(nodes[k - 1].x + nodes[k + 1].x)

====
